---- MODULE Spec2Model ----
(***************************************************************************)
(* Quantisation, hex export/import and int8 inference of the 784-32-10     *)
(* MNIST network: train_mnist.py (producer of the hex files) and           *)
(* verify_test.py (consumer, integer re-inference).                        *)
(*                                                                         *)
(* Tensors keep the program's real shapes.  A tensor or a file is held     *)
(* run-length encoded: a sequence of runs [val, len] in row-major (flat)   *)
(* order, so that a 784x32 matrix is a handful of runs.  A line of a file  *)
(* is the sequence of its characters, the newline removed.                 *)
(***************************************************************************)
EXTENDS Integers, Sequences, FiniteSets, TLC

VARIABLES
  pc,            \* where the program under study stands, or the exception that ended it
  fw, scale_factor, q_out,       \* quantize_weights: arguments and result
  q_params, x_test, y_test, img_q,   \* train_mnist.py: quantized model, test set
  files,         \* the data directory
  imgs, labels, weights,         \* verify_test.py: what the loads returned
  arg, i, j, z1, a1, z2, pred,   \* inference_int8: arguments and locals
  tq_z1          \* test_quantized_model: z1 of the sample

quantVars == <<fw, scale_factor, q_out>>
trainVars == <<q_params, x_test, y_test>>
loadVars == <<imgs, labels, weights>>
inferVars == <<arg, i, j, z1, a1, z2, pred, tq_z1>>
vars == <<pc, quantVars, trainVars, img_q, files, loadVars, inferVars>>

(* ------------------------------ dimensions ----------------------------- *)
NIn == 784
NHid == 32
NOut == 10
NumImages == 20

(* ------------------------------ model bounds --------------------------- *)
\* longest line of an input file that is enumerated, in characters
MaxLineLen == 3

(* ------------------------------ integers ------------------------------- *)
Int8 == -128..127

\* numpy astype(np.int8) of an integer array: keeps the low 8 bits
astype_int8(n) == ((n + 128) % 256) - 128

(* ------------------------------ run-length tensors --------------------- *)
Run(v, n) == [val |-> v, len |-> n]

\* the runs with the empty ones removed
NonEmpty(r) == r.len > 0
Compact(rs) == SelectSeq(rs, NonEmpty)

RECURSIVE RunsLen(_)
RunsLen(rs) == IF rs = <<>> THEN 0 ELSE Head(rs).len + RunsLen(Tail(rs))

\* element k (0-based) of the flat sequence
RECURSIVE RunsAt(_, _)
RunsAt(rs, k) == IF k < Head(rs).len THEN Head(rs).val
                 ELSE RunsAt(Tail(rs), k - Head(rs).len)

RECURSIVE Product(_)
Product(s) == IF s = <<>> THEN 1 ELSE Head(s) * Product(Tail(s))

Tensor(shape, rs) == [shape |-> shape, runs |-> Compact(rs)]

\* what a failed load leaves behind: no array at all
NoTensor == [shape |-> <<>>, runs |-> <<>>]

\* n elements: a everywhere but v at flat index p
OneAt(n, p, v, a) == <<Run(a, p), Run(v, 1), Run(a, n - p - 1)>>

(* ------------------------------ hex text -------------------------------- *)
HexChar == <<"0", "1", "2", "3", "4", "5", "6", "7",
             "8", "9", "a", "b", "c", "d", "e", "f">>

\* f'{val:02x}' for 0 <= val <= 255
format_02x(val) == <<HexChar[(val \div 16) + 1], HexChar[(val % 16) + 1]>>

\* int(x) & 0xFF followed by f'{val:02x}'
EncodeByte_abs(v) == format_02x(IF v < 0 THEN -v ELSE v)
EncodeByte(v) == format_02x(v % 256)

DigitVal(c) ==
  CASE c = "0" -> 0 [] c = "1" -> 1 [] c = "2" -> 2 [] c = "3" -> 3
    [] c = "4" -> 4 [] c = "5" -> 5 [] c = "6" -> 6 [] c = "7" -> 7
    [] c = "8" -> 8 [] c = "9" -> 9
    [] c \in {"a", "A"} -> 10 [] c \in {"b", "B"} -> 11
    [] c \in {"c", "C"} -> 12 [] c \in {"d", "D"} -> 13
    [] c \in {"e", "E"} -> 14 [] c \in {"f", "F"} -> 15
    [] OTHER -> 99

\* str.strip() for the blank character
RECURSIVE LStrip(_)
LStrip(s) == IF s # <<>> /\ Head(s) = " " THEN LStrip(Tail(s)) ELSE s
RECURSIVE RStrip(_)
RStrip(s) == IF s # <<>> /\ s[Len(s)] = " "
             THEN RStrip(SubSeq(s, 1, Len(s) - 1)) ELSE s
strip(s) == RStrip(LStrip(s))

\* the digit string of an int literal: digits below the base, single
\* underscores only between digits
DigitsOk(d, base) ==
  /\ d # <<>>
  /\ \A k \in 1..Len(d) : d[k] = "_" \/ DigitVal(d[k]) < base
  /\ d[1] # "_" /\ d[Len(d)] # "_"
  /\ \A k \in 1..(Len(d) - 1) : ~(d[k] = "_" /\ d[k + 1] = "_")

RECURSIVE DigitsVal(_, _, _)
DigitsVal(d, base, acc) ==
  IF d = <<>> THEN acc
  ELSE IF Head(d) = "_" THEN DigitsVal(Tail(d), base, acc)
  ELSE DigitsVal(Tail(d), base, acc * base + DigitVal(Head(d)))

\* Python int(s, base) for base 10 or 16: optional sign, for base 16 an
\* optional 0x/0X prefix (one underscore may follow it), then the digits.
\* ok = FALSE stands for ValueError.
ParseDigits(d, base, sign) ==
  IF DigitsOk(d, base)
  THEN [ok |-> TRUE, val |-> sign * DigitsVal(d, base, 0)]
  ELSE [ok |-> FALSE, val |-> 0]

SkipUnderscore(w) == IF w # <<>> /\ w[1] = "_" THEN Tail(w) ELSE w

ParsePrefix(u, base, sign) ==
  IF base = 16 /\ Len(u) >= 2 /\ u[1] = "0" /\ u[2] \in {"x", "X"}
  THEN ParseDigits(SkipUnderscore(SubSeq(u, 3, Len(u))), base, sign)
  ELSE ParseDigits(u, base, sign)

ParseSign(t, base) ==
  ParsePrefix(IF t # <<>> /\ t[1] \in {"+", "-"} THEN Tail(t) ELSE t, base,
              IF t # <<>> /\ t[1] = "-" THEN -1 ELSE 1)

int_parse(s, base) == ParseSign(strip(s), base)

\* [0-9a-f]{2}: the only lines the file format allows
IsHexByteLine(s) ==
  /\ Len(s) = 2
  /\ \A k \in 1..2 : \E n \in 1..16 : s[k] = HexChar[n]

(* ------------------------------ floats ---------------------------------- *)
\* A float is modelled exactly, as an integer count of 1/FloatDen; products
\* and quotients are taken in exact rational arithmetic.
FloatDen == 254

\* np.round(n/d), d > 0: round half to even
np_round(n, d) ==
  LET q == n \div d
      r == n % d
  IN IF 2 * r < d THEN q
     ELSE IF 2 * r > d THEN q + 1
     ELSE IF q % 2 = 0 THEN q ELSE q + 1

\* n clamped to [-128, 127]
clip_int8(n) == IF n > 127 THEN 127 ELSE IF n < -128 THEN -128 ELSE n

(* ------------------------------ files ----------------------------------- *)
HexFiles == {"w1", "b1", "w2", "b2", "test_imgs"}
NoFile == <<Run(<<"?">>, 0)>>
NoFiles == [w1 |-> NoFile, b1 |-> NoFile, w2 |-> NoFile, b2 |-> NoFile,
            scales |-> <<>>, test_imgs |-> NoFile, test_labels |-> NoFile]
Exists(f) == f # NoFile

\* one two-digit line per element, in row-major order
write_hex(t) ==
  [k \in 1..Len(t.runs) |-> Run(EncodeByte(t.runs[k].val), t.runs[k].len)]

\* str() of a label 0..9
str_label(l) == <<HexChar[l + 1]>>

\* train_mnist.py export_weights_hex: w1.hex, b1.hex, w2.hex, b2.hex, scales.txt
export_weights_hex(q, fs) ==
  [fs EXCEPT !.w1 = write_hex(q.w1), !.b1 = write_hex(q.b1),
             !.w2 = write_hex(q.w2), !.b2 = write_hex(q.b2),
             !.scales = <<q.sw1, q.sb1, q.sw2, q.sb2>>]

\* astype(np.int8) of the rounded float r.  The C conversion of an
\* out-of-range float to a signed char is undefined: the build may keep the
\* low byte of the wider integer (wraps) or saturate.
CastOutcome(r, wraps) ==
  IF r \in Int8 THEN r ELSE IF wraps THEN astype_int8(r) ELSE clip_int8(r)

\* np.round(x * scale).astype(np.int8), the scale a fraction num/den: one
\* outcome of the cast per run
Quantized(x, scale) ==
  {[shape |-> x.shape,
    runs |-> [k \in 1..Len(x.runs) |->
                Run(CastOutcome(np_round(x.runs[k].val * scale.num,
                                         FloatDen * scale.den), c[k]),
                    x.runs[k].len)]] :
     c \in [1..Len(x.runs) -> BOOLEAN]}

\* the images np.round(img * 127).astype(np.int8) can yield
InputScale == [num |-> 127, den |-> 1]
QuantizedImages(x) == Quantized(x, InputScale)

\* np.max(np.abs(weights)), in units of 1/FloatDen
Abs(n) == IF n < 0 THEN -n ELSE n
Largest(S) == CHOOSE m \in S : \A n \in S : m >= n
MaxAbs(w) == Largest({Abs(w.runs[k].val) : k \in 1..Len(w.runs)})

\* "scale = scale_factor / max_val" or 1.0
ScaleFor(sf, max_val) ==
  IF max_val > 0 THEN [num |-> sf * FloatDen, den |-> max_val]
  ELSE [num |-> 1, den |-> 1]

WithScale(ts, scale) == {[q |-> t, scale |-> scale] : t \in ts}
QuantizedWith(w, scale) == WithScale(Quantized(w, scale), scale)

\* train_mnist.py quantize_weights: the (q_weights, scale) it can return
quantize_weights(w, sf) == QuantizedWith(w, ScaleFor(sf, MaxAbs(w)))

\* train_mnist.py export_test_images, iq the quantized images
export_test_images(iq, y, fs) ==
  [fs EXCEPT !.test_imgs = write_hex(iq),
             !.test_labels =
                [k \in 1..Len(y.runs) |->
                   Run(str_label(y.runs[k].val), y.runs[k].len)]]

\* [int(line.strip(), base) for line in f.readlines()]: a ValueError of any
\* line ends the load
ParsedLine(r, len) == [ok |-> r.ok, run |-> Run(r.val, len)]
ParsedRuns(f, base) ==
  [k \in 1..Len(f) |-> ParsedLine(int_parse(f[k].val, base), f[k].len)]
AllOk(ps) ==
  [ok |-> \A k \in 1..Len(ps) : ps[k].ok,
   runs |-> [k \in 1..Len(ps) |-> ps[k].run]]
readlines_int(f, base) == AllOk(ParsedRuns(f, base))

\* "if val > 127: val = val - 256"
to_signed(val) == IF val > 127 THEN val - 256 ELSE val
Signed(rs) == [k \in 1..Len(rs) |-> Run(to_signed(rs[k].val), rs[k].len)]
Cast8(rs) == [k \in 1..Len(rs) |-> Run(astype_int8(rs[k].val), rs[k].len)]

\* np.array(flat).reshape(shape): ValueError unless the sizes agree
reshape_ok(rs, shape) == RunsLen(rs) = Product(shape)

NoData(e) == [status |-> e, imgs |-> NoTensor, labels |-> NoTensor]

\* the labels of load_test_data, lab the parsed test_labels.txt
LoadLabels(im, exists, lab) ==
  IF ~exists THEN NoData("FileNotFoundError")
  ELSE IF ~lab.ok THEN NoData("ValueError")
  ELSE [status |-> "ok", imgs |-> im,
        labels |-> [shape |-> <<RunsLen(lab.runs)>>, runs |-> lab.runs]]

\* the images of load_test_data, hex_data the parsed test_imgs.hex
LoadImages(exists, hex_data, fs) ==
  IF ~exists THEN NoData("FileNotFoundError")
  ELSE IF ~hex_data.ok THEN NoData("ValueError")
  ELSE IF ~reshape_ok(hex_data.runs, <<NumImages, NIn>>) THEN NoData("ValueError")
  ELSE LoadLabels([shape |-> <<NumImages, NIn>>, runs |-> Cast8(hex_data.runs)],
                  Exists(fs.test_labels), readlines_int(fs.test_labels, 10))

\* verify_test.py load_test_data: [status, imgs, labels]
load_test_data(fs) ==
  LoadImages(Exists(fs.test_imgs), readlines_int(fs.test_imgs, 16), fs)

\* np.array(flat) of load_weights, reshaped unless shape = <<>> (the two
\* bias vectors), then astype(np.int8)
ToArray(flat, shape) ==
  IF shape = <<>>
  THEN [status |-> "ok", t |-> [shape |-> <<RunsLen(flat)>>, runs |-> Cast8(flat)]]
  ELSE IF ~reshape_ok(flat, shape) THEN [status |-> "ValueError", t |-> NoTensor]
  ELSE [status |-> "ok", t |-> [shape |-> shape, runs |-> Cast8(flat)]]

SignedArray(exists, parsed, shape) ==
  IF ~exists THEN [status |-> "FileNotFoundError", t |-> NoTensor]
  ELSE IF ~parsed.ok THEN [status |-> "ValueError", t |-> NoTensor]
  ELSE ToArray(Signed(parsed.runs), shape)

\* one "with open(...)" block of load_weights and its np.array line
load_hex(f, shape) == SignedArray(Exists(f), readlines_int(f, 16), shape)

NoWeights == [w1 |-> NoTensor, b1 |-> NoTensor, w2 |-> NoTensor, b2 |-> NoTensor]

FirstFailure(w1, b1, w2, b2) ==
  IF w1.status # "ok" THEN [status |-> w1.status, w |-> NoWeights]
  ELSE IF b1.status # "ok" THEN [status |-> b1.status, w |-> NoWeights]
  ELSE IF w2.status # "ok" THEN [status |-> w2.status, w |-> NoWeights]
  ELSE IF b2.status # "ok" THEN [status |-> b2.status, w |-> NoWeights]
  ELSE [status |-> "ok",
        w |-> [w1 |-> w1.t, b1 |-> b1.t, w2 |-> w2.t, b2 |-> b2.t]]

\* verify_test.py load_weights: the four files in order, the first failure
\* ends the call
load_weights(fs) ==
  FirstFailure(load_hex(fs.w1, <<NIn, NHid>>), load_hex(fs.b1, <<>>),
               load_hex(fs.w2, <<NHid, NOut>>), load_hex(fs.b2, <<>>))

(* ------------------------------ the two programs ------------------------ *)
\* train_mnist.py main, from the quantized model on
ExportWeightsHex ==
  /\ pc = "quantized"
  /\ files' = export_weights_hex(q_params, files)
  /\ pc' = "weights_exported"
  /\ UNCHANGED <<quantVars, trainVars, img_q, loadVars, inferVars>>

ExportTestImages ==
  /\ pc = "weights_exported"
  /\ \E iq \in QuantizedImages(x_test) :
       /\ img_q' = iq
       /\ files' = export_test_images(iq, y_test, files)
  /\ pc' = "exported"
  /\ UNCHANGED <<quantVars, trainVars, loadVars, inferVars>>

\* verify_test.py main: an exception of a load ends the program
LoadTestData ==
  /\ pc = "exported"
  /\ LET r == load_test_data(files)
     IN IF r.status = "ok"
        THEN imgs' = r.imgs /\ labels' = r.labels /\ pc' = "data_loaded"
        ELSE pc' = r.status /\ UNCHANGED <<imgs, labels>>
  /\ UNCHANGED <<quantVars, trainVars, img_q, files, weights, inferVars>>

LoadWeights ==
  /\ pc = "data_loaded"
  /\ LET r == load_weights(files)
     IN IF r.status = "ok"
        THEN weights' = r.w /\ pc' = "loaded"
        ELSE pc' = r.status /\ UNCHANGED weights
  /\ UNCHANGED <<quantVars, trainVars, img_q, files, imgs, labels, inferVars>>

(* ------------------------------ inputs ---------------------------------- *)
Size(name) ==
  CASE name = "w1" -> NIn * NHid [] name = "b1" -> NHid
    [] name = "w2" -> NHid * NOut [] name = "b2" -> NOut
    [] name = "test_imgs" -> NumImages * NIn

ShapeOf(name) ==
  CASE name = "w1" -> <<NIn, NHid>> [] name = "b1" -> <<NHid>>
    [] name = "w2" -> <<NHid, NOut>> [] name = "b2" -> <<NOut>>
    [] name = "test_imgs" -> <<NumImages, NIn>>

Positions(n) == {0, n \div 2, n - 1}

\* float images, in units of 1/FloatDen, whose quantization covers int8
XUnits == (-(FloatDen + 4))..(FloatDen + 1)

UnitScale == [num |-> 127 * FloatDen, den |-> FloatDen]

\* the tensor of that name: zero but for v at flat index p
Subject(name, s, p, v) ==
  IF name = s THEN Tensor(ShapeOf(name), OneAt(Size(name), p, v, 0))
  ELSE Tensor(ShapeOf(name), <<Run(0, Size(name))>>)

NoLoad ==
  /\ imgs = NoTensor /\ labels = NoTensor /\ weights = NoWeights

NoArg == [img |-> NoTensor, w1 |-> NoTensor, b1 |-> NoTensor,
          w2 |-> NoTensor, b2 |-> NoTensor]

\* inference_int8 not entered: its zero-initialised locals
NoInference ==
  /\ i = 0 /\ j = 0 /\ pred = 0
  /\ z1 = [k \in 1..NHid |-> 0]
  /\ a1 = [k \in 1..NHid |-> 0]
  /\ z2 = [k \in 1..NOut |-> 0]
  /\ tq_z1 = <<>>

NoQuantCall ==
  /\ fw = NoTensor /\ scale_factor = 127
  /\ q_out = [q |-> NoTensor, scale |-> [num |-> 1, den |-> 1]]

\* after quantize_model: any int8 parameters, any selected test images
InitTrain ==
  /\ pc = "quantized"
  /\ \E s \in HexFiles : \E p \in Positions(Size(s)) :
       \E v \in (IF s = "test_imgs" THEN XUnits ELSE Int8) :
         /\ q_params = [w1 |-> Subject("w1", s, p, v),
                        b1 |-> Subject("b1", s, p, v),
                        w2 |-> Subject("w2", s, p, v),
                        b2 |-> Subject("b2", s, p, v),
                        sw1 |-> UnitScale, sb1 |-> UnitScale,
                        sw2 |-> UnitScale, sb2 |-> UnitScale]
         /\ x_test = Subject("test_imgs", s, p, v)
  /\ y_test \in {Tensor(<<NumImages>>, OneAt(NumImages, 0, l, 7)) : l \in {0, 9}}
  /\ img_q = NoTensor
  /\ files = NoFiles
  /\ NoLoad
  /\ arg = NoArg /\ NoInference
  /\ NoQuantCall

Init == InitTrain

Next == ExportWeightsHex \/ ExportTestImages \/ LoadTestData \/ LoadWeights

Spec == Init /\ [][Next]_vars

\* verify_test.py run on files of any origin
LineChars == {"0", "8", "a", "b", "c", "f", "F", "z", " ", "-", "x", "_"}
Lines == UNION {[1..n -> LineChars] : n \in 0..MaxLineLen}

GoodFile(name) == <<Run(<<"0", "0">>, Size(name))>>

\* Size + d lines, the line x first or last among them
FileWith(name, d, x, first) ==
  LET rest == Run(<<"7", "f">>, Size(name) + d - 1)
  IN IF first THEN <<Run(x, 1), rest>> ELSE <<rest, Run(x, 1)>>

InitFiles ==
  /\ pc = "exported"
  /\ \E s \in HexFiles : \E d \in {-1, 0, 1} : \E x \in Lines : \E first \in BOOLEAN :
       LET F(name) == IF name = s THEN FileWith(name, d, x, first)
                      ELSE GoodFile(name)
       IN files = [w1 |-> F("w1"), b1 |-> F("b1"), w2 |-> F("w2"),
                   b2 |-> F("b2"), scales |-> <<>>, test_imgs |-> F("test_imgs"),
                   test_labels |-> <<Run(<<"7">>, NumImages)>>]
  /\ q_params = NoWeights /\ x_test = NoTensor /\ y_test = NoTensor
  /\ img_q = NoTensor
  /\ NoLoad
  /\ arg = NoArg /\ NoInference
  /\ NoQuantCall

NextLoad == LoadTestData \/ LoadWeights

SpecLoad == InitFiles /\ [][NextLoad]_vars

(* ------------------------------ int8 inference -------------------------- *)
BiasScale == 256
TrainBiasScale == 127
ClampCeiling == 32767
ShiftBits == 8
MaxInt32 == 2147483647
MinInt32 == -MaxInt32 - 1

\* np.int32 addition: the sum modulo 2^32, computed without leaving 32 bits
AddInt32_16bit(a, b) == ((a + b + 32768) % 65536) - 32768
AddInt32(a, b) ==
  IF b > 0 /\ a > MaxInt32 - b THEN MinInt32 + (a - (MaxInt32 - b) - 1)
  ELSE IF b < 0 /\ a < MinInt32 - b THEN MaxInt32 - ((MinInt32 - b) - a - 1)
  ELSE a + b

\* t[k] and t[r, c] of a numpy array, indices from 0; out of bounds is IndexError
InBounds1(t, k) == k < t.shape[1]
InBounds2(t, r, c) == r < t.shape[1] /\ c < t.shape[2]
At1(t, k) == RunsAt(t.runs, k)
At2(t, r, c) == RunsAt(t.runs, r * t.shape[2] + c)

\* "b1.astype(np.int32) * 127" and "z1[i] = int(b1[i]) * 256"
TrainScaledBias(b) == b * TrainBiasScale
ScaledBias_x127(b) == b * 127
ScaledBias(b) == b * BiasScale

\* z >> 8 of an np.int32
ShiftRight(z) == z \div (2 ^ ShiftBits)

\* the value the ReLU/requantize branch assigns to a1[i]
ReluRequant_ceil65535(z) ==
  IF z < 0 THEN 0 ELSE IF z > 2 * ClampCeiling + 1 THEN 127 ELSE ShiftRight(z)
ReluRequant(z) ==
  IF z < 0 THEN 0 ELSE IF z > ClampCeiling THEN 127 ELSE ShiftRight(z)

\* np.argmax: the first index of the maximum
RECURSIVE ArgmaxScan(_, _, _)
ArgmaxScan(z, k, best) ==
  IF k > Len(z) THEN best
  ELSE ArgmaxScan(z, k + 1, IF z[k] > z[best] THEN k ELSE best)
RECURSIVE ArgmaxScan_last(_, _, _)
ArgmaxScan_last(z, k, best) ==
  IF k > Len(z) THEN best
  ELSE ArgmaxScan_last(z, k + 1, IF z[k] >= z[best] THEN k ELSE best)
np_argmax_last(z) == ArgmaxScan_last(z, 2, 1) - 1
np_argmax(z) == ArgmaxScan(z, 2, 1) - 1

\* column col of np.dot(w.T, x) in int32: rows row..stop-1 of w, and all rows
\* taken 28 at a time (the test of acc has TLC evaluate the running sum at
\* every row rather than at the end)
RECURSIVE DotRows(_, _, _, _, _, _)
DotRows(w, x, col, row, stop, acc) ==
  IF row >= stop \/ acc \notin Int THEN acc
  ELSE DotRows(w, x, col, row + 1, stop,
               AddInt32(acc, At2(w, row, col) * At1(x, row)))
Min(a, b) == IF a < b THEN a ELSE b
RECURSIVE DotColumn(_, _, _, _, _)
DotColumn(w, x, col, row, acc) ==
  IF row >= w.shape[1] \/ acc \notin Int THEN acc
  ELSE DotColumn(w, x, col, row + 28,
                 DotRows(w, x, col, row, Min(row + 28, w.shape[1]), acc))

\* test_quantized_model, z1 of one sample x_q:
\* np.dot(w1.T, x_q.astype(np.int32)) + b1.astype(np.int32) * 127
\* (<<>>: the shapes do not align, ValueError)
test_quantized_z1(w1, b1, x_q) ==
  IF w1.shape[1] # x_q.shape[1] \/ b1.shape[1] \notin {1, w1.shape[2]} THEN <<>>
  ELSE [k \in 1..w1.shape[2] |->
          AddInt32(DotColumn(w1, x_q, k - 1, 0, 0),
                   TrainScaledBias(At1(b1, IF b1.shape[1] = 1 THEN 0 ELSE k - 1)))]

\* the quantized-accuracy test of train_mnist.py on the sample and parameters
\* that inference_int8 is then called with
TestQuantizedModel ==
  /\ pc = "test_quantized"
  /\ tq_z1' = test_quantized_z1(arg.w1, arg.b1, arg.img)
  /\ pc' = "bias1"
  /\ UNCHANGED <<quantVars, trainVars, img_q, files, loadVars,
                 arg, i, j, z1, a1, z2, pred>>

\* inference_int8, one loop iteration per step
InferBias1 ==
  /\ pc = "bias1"
  /\ InBounds1(arg.b1, i)
  /\ z1' = [z1 EXCEPT ![i + 1] = ScaledBias(At1(arg.b1, i))]
  /\ IF i + 1 < NHid THEN i' = i + 1 /\ pc' = pc
     ELSE i' = 0 /\ pc' = "mac1"
  /\ UNCHANGED <<quantVars, trainVars, img_q, files, loadVars,
                 arg, j, a1, z2, pred, tq_z1>>

InferMac1 ==
  /\ pc = "mac1"
  /\ InBounds1(arg.img, j) /\ InBounds2(arg.w1, j, i)
  /\ z1' = [z1 EXCEPT ![i + 1] = AddInt32(@, At1(arg.img, j) * At2(arg.w1, j, i))]
  /\ IF j + 1 < NIn THEN j' = j + 1 /\ i' = i /\ pc' = pc
     ELSE IF i + 1 < NHid THEN j' = 0 /\ i' = i + 1 /\ pc' = pc
     ELSE j' = 0 /\ i' = 0 /\ pc' = "relu"
  /\ UNCHANGED <<quantVars, trainVars, img_q, files, loadVars,
                 arg, a1, z2, pred, tq_z1>>

InferRelu ==
  /\ pc = "relu"
  /\ a1' = [a1 EXCEPT ![i + 1] = astype_int8(ReluRequant(z1[i + 1]))]
  /\ IF i + 1 < NHid THEN i' = i + 1 /\ pc' = pc
     ELSE i' = 0 /\ pc' = "bias2"
  /\ UNCHANGED <<quantVars, trainVars, img_q, files, loadVars,
                 arg, j, z1, z2, pred, tq_z1>>

InferBias2 ==
  /\ pc = "bias2"
  /\ InBounds1(arg.b2, i)
  /\ z2' = [z2 EXCEPT ![i + 1] = At1(arg.b2, i)]
  /\ IF i + 1 < NOut THEN i' = i + 1 /\ pc' = pc
     ELSE i' = 0 /\ pc' = "mac2"
  /\ UNCHANGED <<quantVars, trainVars, img_q, files, loadVars,
                 arg, j, z1, a1, pred, tq_z1>>

InferMac2 ==
  /\ pc = "mac2"
  /\ InBounds2(arg.w2, j, i)
  /\ z2' = [z2 EXCEPT ![i + 1] = AddInt32(@, a1[j + 1] * At2(arg.w2, j, i))]
  /\ IF j + 1 < NHid THEN j' = j + 1 /\ i' = i /\ pc' = pc
     ELSE IF i + 1 < NOut THEN j' = 0 /\ i' = i + 1 /\ pc' = pc
     ELSE j' = 0 /\ i' = 0 /\ pc' = "argmax"
  /\ UNCHANGED <<quantVars, trainVars, img_q, files, loadVars,
                 arg, z1, a1, pred, tq_z1>>

InferArgmax ==
  /\ pc = "argmax"
  /\ pred' = np_argmax(z2)
  /\ pc' = "done"
  /\ UNCHANGED <<quantVars, trainVars, img_q, files, loadVars,
                 arg, i, j, z1, a1, z2, tq_z1>>

\* an index past the end of an argument ends the call
InferIndexError ==
  /\ \/ pc = "bias1" /\ ~InBounds1(arg.b1, i)
     \/ pc = "mac1" /\ ~(InBounds1(arg.img, j) /\ InBounds2(arg.w1, j, i))
     \/ pc = "bias2" /\ ~InBounds1(arg.b2, i)
     \/ pc = "mac2" /\ ~InBounds2(arg.w2, j, i)
  /\ pc' = "IndexError"
  /\ UNCHANGED <<quantVars, trainVars, img_q, files, loadVars, inferVars>>

(* ------------------------------ inference inputs ------------------------ *)
Const1(n, v) == Tensor(<<n>>, <<Run(v, n)>>)
Const2(r, c, v) == Tensor(<<r, c>>, <<Run(v, r * c)>>)
FromSeq(q) == Tensor(<<Len(q)>>, [k \in 1..Len(q) |-> Run(q[k], 1)])
\* base, base + 1, ..., base + n - 1
Ramp(n, base) == FromSeq([k \in 1..n |-> base + k - 1])
\* x first, then zeros
Impulse(n, x) == Tensor(<<n>>, <<Run(x, 1), Run(0, n - 1)>>)

Case(img, w1, b1, w2, b2) == [img |-> img, w1 |-> w1, b1 |-> b1, w2 |-> w2, b2 |-> b2]

\* layer-2 parameters: a weight pattern that differs from cell to cell
PatternW2 ==
  Tensor(<<NHid, NOut>>,
         [k \in 1..(4 * NOut + 1) |->
            IF k <= 4 * NOut THEN Run(((7 * k) % 11) - 5, 1)
            ELSE Run(1, (NHid - 4) * NOut)])
TieScores == {<<5, 5, 3, 5, -1, 0, 5, 2, 1, 5>>,
              <<-3, 9, 9, 0, 9, -128, 1, 2, 3, 4>>,
              <<0, 0, 0, 0, 0, 0, 0, 0, 0, 7>>,
              <<-128, -128, -128, -128, -128, -128, -128, -128, -128, -128>>}

\* every bias value once over the eight ramps, and the vector [1, 0, ..., 0]
BiasVectors ==
  {Ramp(NHid, base) : base \in {-128, -96, -64, -32, 0, 32, 64, 96}}
    \cup {Impulse(NHid, 1)}
Images ==
  {Const1(NIn, 127),
   Tensor(<<NIn>>, <<Run(-128, 1), Run(5, 391), Run(-77, 392)>>)}

\* w1 = 0: the accumulator is the scaled bias alone
ZeroWeightCases ==
  {Case(im, Const2(NIn, NHid, 0), b, PatternW2, Ramp(NOut, -5)) :
     im \in Images, b \in BiasVectors}

\* equal layer-2 scores
TieCases ==
  {Case(Const1(NIn, 1), Const2(NIn, NHid, 0), Ramp(NHid, -8),
        Const2(NHid, NOut, c), FromSeq(t)) : c \in {0, 1}, t \in TieScores}

\* the largest and smallest accumulators
Sign(x) == IF x < 0 THEN -1 ELSE 1
Extreme(s) == IF s < 0 THEN -128 ELSE 127
ExtremeCases ==
  {Case(Const1(NIn, x), Const2(NIn, NHid, c), Const1(NHid, Extreme(Sign(x) * Sign(c))),
        Const2(NHid, NOut, d), Const1(NOut, d)) :
     x \in {-128, 127}, c \in {-128, 127}, d \in {-128, 127}}

\* accumulators next to the ReLU and clamp thresholds
ThresholdCases ==
  {Case(Impulse(NIn, xc[1]), Const2(NIn, NHid, xc[2]), Ramp(NHid, base),
        PatternW2, Const1(NOut, 0)) :
     xc \in {<<3, 85>>, <<16, 16>>, <<-1, 1>>, <<1, 1>>}, base \in {-16, 96}}

\* arguments one too short or one too long in one dimension
MismatchCases ==
  LET ok == Case(Const1(NIn, 1), Const2(NIn, NHid, 1), Const1(NHid, 1),
                 Const2(NHid, NOut, 0), Ramp(NOut, 0))
  IN UNION {
       {[ok EXCEPT !.img = Const1(NIn + d, 1)],
        [ok EXCEPT !.b1 = Const1(NHid + d, 1)],
        [ok EXCEPT !.b2 = Const1(NOut + d, 1)],
        [ok EXCEPT !.w1 = Const2(NIn + d, NHid, 1)],
        [ok EXCEPT !.w1 = Const2(NIn, NHid + d, 1)],
        [ok EXCEPT !.w2 = Const2(NHid + d, NOut, 1)],
        [ok EXCEPT !.w2 = Const2(NHid, NOut + d, 1)]} : d \in {-1, 1}}

ShapesMatch(c) ==
  /\ c.img.shape = <<NIn>> /\ c.w1.shape = <<NIn, NHid>> /\ c.b1.shape = <<NHid>>
  /\ c.w2.shape = <<NHid, NOut>> /\ c.b2.shape = <<NOut>>

InitInfer ==
  /\ pc = "test_quantized"
  /\ arg \in ZeroWeightCases \cup TieCases \cup ExtremeCases
              \cup ThresholdCases \cup MismatchCases
  /\ NoInference
  /\ NoQuantCall
  /\ q_params = NoWeights /\ x_test = NoTensor /\ y_test = NoTensor
  /\ img_q = NoTensor /\ files = NoFiles
  /\ NoLoad

NextInfer ==
  \/ TestQuantizedModel
  \/ InferBias1 \/ InferMac1 \/ InferRelu
  \/ InferBias2 \/ InferMac2 \/ InferArgmax
  \/ InferIndexError

SpecInfer == InitInfer /\ [][NextInfer]_vars

(* ------------------------------ quantization --------------------------- *)
\* a call quantize_weights(fw, scale_factor)
QuantizeWeights ==
  /\ pc = "trained"
  /\ q_out' \in quantize_weights(fw, scale_factor)
  /\ pc' = "weights_quantized"
  /\ UNCHANGED <<fw, scale_factor, trainVars, img_q, files, loadVars, inferVars>>

\* "x_q = np.round(x * 127).astype(np.int8)" of test_quantized_model and
\* export_test_images
QuantizeInput ==
  /\ pc = "weights_quantized"
  /\ img_q' \in QuantizedImages(x_test)
  /\ pc' = "input_quantized"
  /\ UNCHANGED <<quantVars, trainVars, files, loadVars, inferVars>>

\* float weights and pixels, in units of 1/FloatDen
WeightUnits == {-4, -3, -1, 0, 1, 2, 3}
PixelUnits == {0, 3, 127, FloatDen, 2 * FloatDen, -300}
ScaleFactors == {1, 127, 128, 200, 255}

InitQuant ==
  /\ pc = "trained"
  /\ fw \in {Tensor(<<NHid, NOut>>, <<Run(a, 1), Run(b, NHid * NOut - 1)>>) :
               a \in WeightUnits, b \in WeightUnits}
  /\ scale_factor \in ScaleFactors
  /\ q_out = [q |-> NoTensor, scale |-> [num |-> 1, den |-> 1]]
  /\ x_test \in {Tensor(<<NumImages, NIn>>, <<Run(u, 1), Run(0, NumImages * NIn - 1)>>) :
                   u \in PixelUnits}
  /\ q_params = NoWeights /\ y_test = NoTensor
  /\ img_q = NoTensor /\ files = NoFiles
  /\ NoLoad
  /\ arg = NoArg /\ NoInference

NextQuant == QuantizeWeights \/ QuantizeInput

SpecQuant == InitQuant /\ [][NextQuant]_vars

\* C6: every quantized element is round(x * scale) clamped to [-128, 127],
\* for the weights under any scale_factor and for the pixels under scale 127.
QuantizationSaturates ==
  /\ pc \in {"weights_quantized", "input_quantized"} =>
       \A k \in 1..Len(fw.runs) :
         q_out.q.runs[k].val =
           clip_int8(np_round(fw.runs[k].val * q_out.scale.num,
                              FloatDen * q_out.scale.den))
  /\ pc = "input_quantized" =>
       \A k \in 1..Len(x_test.runs) :
         img_q.runs[k].val = clip_int8(np_round(x_test.runs[k].val * 127, FloatDen))

(* ------------------------------ hex codec properties ------------------- *)
Failed == pc \in {"ValueError", "FileNotFoundError", "IndexError"}

\* the lines ff, 7f and 80 of file f stand for -1, 127 and -128 in tensor t
DecodesBoundary(f, t) ==
  \A k \in 1..Len(f) :
    /\ f[k].val = <<"f", "f">> => t.runs[k].val = -1
    /\ f[k].val = <<"7", "f">> => t.runs[k].val = 127
    /\ f[k].val = <<"8", "0">> => t.runs[k].val = -128

\* C1: every int8 tensor written by the export functions is read back
\* unchanged, element for element, by load_test_data (images, no explicit sign
\* conversion) and by load_weights (w1, b1, w2, b2); no load of an exported
\* file fails; the lines ff, 7f, 80 are read as -1, 127, -128.
RoundTripIdentity ==
  /\ ~Failed
  /\ pc \in {"data_loaded", "loaded"} =>
       /\ imgs = img_q
       /\ DecodesBoundary(files.test_imgs, imgs)
  /\ pc = "loaded" =>
       /\ weights = [w1 |-> q_params.w1, b1 |-> q_params.b1,
                     w2 |-> q_params.w2, b2 |-> q_params.b2]
       /\ \A n \in {"w1", "b1", "w2", "b2"} : DecodesBoundary(files[n], weights[n])

\* an image with a pixel of -128 has been exported as 80 and loaded
RoundTripWitness ==
  /\ pc = "loaded"
  /\ \E k \in 1..Len(files.test_imgs) :
       files.test_imgs[k].val = <<"8", "0">> /\ imgs.runs[k].val = -128

HasMalformedLine(f) == \E k \in 1..Len(f) : f[k].len > 0 /\ ~IsHexByteLine(f[k].val)

\* the load of that file has been attempted
LoadAttempted(name) ==
  IF name = "test_imgs" THEN pc # "exported"
  ELSE pc \notin {"exported", "data_loaded"}

\* C2: a file with a line that is not two lower-case hex digits makes its
\* load fail, and the failed load hands no tensor to the program.
MalformedLineRejected ==
  \A name \in HexFiles :
    (HasMalformedLine(files[name]) /\ LoadAttempted(name)) =>
      /\ Failed
      /\ weights = NoWeights
      /\ name = "test_imgs" => imgs = NoTensor

\* C3: a weight or bias file whose line count is not the element count of
\* its tensor makes load_weights fail and return nothing.
WrongCountRejected ==
  \A name \in {"w1", "b1", "w2", "b2"} :
    (RunsLen(files[name]) # Size(name) /\ LoadAttempted(name)) =>
      Failed /\ weights = NoWeights

(* ------------------------------ inference properties ------------------- *)
\* the accumulation of layer-1 neuron k (from 1) is complete
Layer1Done(k) ==
  \/ pc \in {"relu", "bias2", "mac2", "argmax", "done"}
  \/ pc = "mac1" /\ k <= i

\* the activation of layer-1 neuron k (from 1) has been stored
ActivationDone(k) ==
  \/ pc \in {"bias2", "mac2", "argmax", "done"}
  \/ pc = "relu" /\ k <= i

\* C4: every stored layer-1 activation is 0 for a negative accumulator, 127
\* for an accumulator above 32767 and the accumulator shifted right by 8
\* otherwise, and lies in 0..127: the int8 store did not wrap and a clamp to
\* [-128, 127] would leave it as it is.
ReluRequantInRange ==
  \A k \in 1..NHid :
    ActivationDone(k) =>
      /\ a1[k] = (IF z1[k] < 0 THEN 0
                  ELSE IF z1[k] > 32767 THEN 127
                  ELSE z1[k] \div 256)
      /\ a1[k] \in 0..127
      /\ clip_int8(a1[k]) = a1[k]

\* a finished call with an accumulator just above the ceiling, clamped to
\* 127, and one below it, shifted to a positive activation
ReluRequantWitness ==
  /\ pc = "done"
  /\ \E k \in 1..NHid : z1[k] = 32768 /\ a1[k] = 127
  /\ \E k \in 1..NHid : z1[k] \in 256..32767 /\ a1[k] = z1[k] \div 256

\* C5: the quantized accuracy test and inference_int8 compute the same
\* layer-1 accumulators for the same sample and parameters.
UniformBiasConvention ==
  \A k \in 1..NHid :
    (Layer1Done(k) /\ tq_z1 # <<>>) => z1[k] = tq_z1[k]

AllZero(t) == \A n \in 1..Len(t.runs) : t.runs[n].val = 0
Max(a, b) == IF a > b THEN a ELSE b

\* C7: with w1 = 0 the layer-1 accumulator of neuron k is 256 * b1[k] and its
\* activation max(0, b1[k]), whatever the image.
ZeroWeightAccumulator ==
  (arg # NoArg /\ AllZero(arg.w1)) =>
    \A k \in 1..NHid :
      /\ Layer1Done(k) => z1[k] = 256 * At1(arg.b1, k - 1)
      /\ ActivationDone(k) => a1[k] = Max(0, At1(arg.b1, k - 1))

\* the biases [1, 0, ..., 0]: accumulator 256, activation 1 for neuron 0, an
\* activation of 0 for the others
ZeroWeightWitness ==
  /\ pc = "done"
  /\ AllZero(arg.w1) /\ ~AllZero(arg.img)
  /\ arg.b1 = Impulse(NHid, 1)
  /\ z1[1] = 256 /\ a1[1] = 1
  /\ \A k \in 2..NHid : a1[k] = 0

\* b2[k] + sum over rows r.. of a1[r] * w2[r][k], exactly (k, r from 0)
RECURSIVE Layer2Score(_, _)
Layer2Score(k, r) ==
  IF r = NHid THEN At1(arg.b2, k)
  ELSE a1[r + 1] * At2(arg.w2, r, k) + Layer2Score(k, r + 1)

\* C8: the class returned is the lowest index of a largest layer-2 score, and
\* the scores are b2[k] + sum_r a1[r] * w2[r][k].
ArgmaxLowestIndex ==
  pc = "done" =>
    /\ pred \in 0..(NOut - 1)
    /\ \A k \in 1..NOut :
         /\ z2[pred + 1] >= z2[k]
         /\ k < pred + 1 => z2[k] < z2[pred + 1]
         /\ z2[k] = Layer2Score(k - 1, 0)

\* a finished call whose largest score occurs more than once, not first at 0
ArgmaxWitness ==
  /\ pc = "done" /\ pred > 0
  /\ \E k \in 1..NOut : k # pred + 1 /\ z2[k] = z2[pred + 1]

\* C9: a call with an argument of the wrong size ends in an error and
\* returns no prediction.
MismatchFailsFast ==
  (arg # NoArg /\ ~ShapesMatch(arg)) => pc # "done"

\* C10: no addition of the two accumulation loops leaves the int32 range:
\* every step adds the exact product to the accumulator.
NoAccumulatorOverflow ==
  [][/\ (pc = "bias1" /\ pc' # "IndexError") =>
          /\ z1'[i + 1] = 256 * At1(arg.b1, i)
          /\ z1'[i + 1] \in MinInt32..MaxInt32
     /\ (pc = "mac1" /\ pc' # "IndexError") =>
          /\ z1'[i + 1] = z1[i + 1] + At1(arg.img, j) * At2(arg.w1, j, i)
          /\ z1'[i + 1] \in MinInt32..MaxInt32
     /\ (pc = "mac2" /\ pc' # "IndexError") =>
          /\ z2'[i + 1] = z2[i + 1] + a1[j + 1] * At2(arg.w2, j, i)
          /\ z2'[i + 1] \in MinInt32..MaxInt32]_vars

\* the largest layer-1 accumulator there is, and the largest layer-2 one
AccumulatorWitness ==
  /\ pc = "done"
  /\ z1[NHid] = 127 * 256 + NIn * 128 * 128
  /\ z2[NOut] = 127 + NHid * 127 * 127

====
